---- MODULE Spec2Model ----
(***************************************************************************)
(* A model of srv_batch_simrareped.py (rarepedsim): the demographic size   *)
(* function multiStageDemoFunc, the selection-coefficient generators       *)
(* built by genSelDistFunc, the statistics collector                       *)
(* NumSegregationSites.countSites, and the replicate driver: srvOutput,    *)
(* the operators simuRareVariants hands to pop.evolve, the collector        *)
(* fitnessCollector.getCoef and saveMarkerInfoToFile.                      *)
(*                                                                         *)
(* The operators of simuPOP (mutator, selector, mating, revertFixedSites)  *)
(* are not part of the source; they are modelled from their description.   *)
(* Mating gives every offspring haplotype as a haplotype passed on by some  *)
(* individual of the parental generation.                                  *)
(*                                                                         *)
(* Real numbers.  Population sizes are integers.  The growth formula       *)
(*   int(N[i] * exp(log(N[i+1]/N[i]) / G[i] * k))                          *)
(* is modelled by its exact value v = (N[i]^(G[i]-k) * N[i+1]^k)^(1/G[i])  *)
(* found by integer root search.  The code computes v in binary floating   *)
(* point; when v is a whole number the computed value may fall an ulp      *)
(* below it and int() then yields v-1 (CPython gives 7 for N[i]=1,         *)
(* N[i+1]=16, G[i]=4, k=3).  The model keeps both outcomes.  The same      *)
(* holds for int(sz*x) with a proportion x that is not a dyadic fraction.  *)
(* Probabilities are multiples of 1/PDen, proportions multiples of         *)
(* 1/SplitDen, selection coefficients and gamma samples whole numbers of   *)
(* an arbitrary unit.                                                      *)
(***************************************************************************)
EXTENDS Integers, Sequences, FiniteSets, TLC

\* ---------------------------------------------------------------- bounds
MaxSize == 4         \* population sizes N[i] range over 1..MaxSize
MaxDur == 4          \* stage durations G[i] range over 0..MaxDur
SplitDen == 3        \* split proportions are k/SplitDen
PDen == 2           \* probabilities p, q and uniform draws are k/PDen
MaxGamma == 3       \* gamma samples, range limits and truncation bounds range over 0..MaxGamma
MaxGammaCalls == 2  \* randGamma calls followed within one draw
MaxVecLen == 13     \* parameter vectors of length 0..MaxVecLen
MaxPos == 2         \* mutation positions range over 1..MaxPos
Slots == 1          \* slots of a haplotype
StageCounts == {1, 2}   \* len(G)
SplitAts == {0, 1, 2, 4}   \* generations at which a split may be configured
PopSizes == {1, 2}      \* pop.popSize() of the populations whose statistics are taken

VARIABLES
    N,          \* demographic sizes (Python N[i] is N[i+1] here)
    G,          \* stage durations
    splitTo,    \* split proportions, numerators over SplitDen; <<SplitDen>> is [1]
    splitAt,    \* generation of the split
    gen,        \* generation counter of pop.evolve
    nSP,        \* pop.numSubPop()
    demoCall,   \* the last call of demoFunc: its gen, the nSP it saw, sz, the value returned
    selCoef,    \* the selection parameter vector
    selRange,   \* <<lo, hi>>, the allowed range of selection coefficients
    selDistFunc, \* what genSelDistFunc(selCoef, selRange) gave: a family, or "ValueError"
    draw,       \* the running or last call of the generator func()
    geno,       \* the population: per individual two haplotypes, each a sequence of slots
    dvars,      \* pop.dvars(): numSites, avgSites, avgFreq
    err,        \* the exception that ended countSites or the run, or "none"
    opts,       \* the options srvOutput was called with
    pc,         \* where the run of srvOutput stands
    replicate,  \* the replicate of the running call of simuRareVariants
    dicSaveGeno, \* srvOutput: replicate -> name of its .ped file, or <<>> for ''
    dicSaveStat, \* srvOutput: replicate -> name of its .stat file, or <<>> for ''
    args,       \* statFile, genotypeFile and regInt of the running call
    collector,  \* fitnessCollector.selCoef: position -> <<s, h>>
    popSelCoef, \* pop.dvars().selCoef
    sfs,        \* the lines of fileName + '.sfs'
    files,      \* the names of the other files written
    statLines,  \* the records written to the statistics file of the running call
    live        \* during the preOps, the positions the population carried when they began

demoVars == <<N, G, splitTo, splitAt, gen, nSP, demoCall>>
selVars == <<selCoef, selRange, selDistFunc, draw>>
statVars == <<geno, dvars, err>>
runVars == <<opts, pc, replicate, dicSaveGeno, dicSaveStat, args, collector, popSelCoef,
             sfs, files, statLines, live>>
vars == <<N, G, splitTo, splitAt, gen, nSP, demoCall, selCoef, selRange, selDistFunc, draw,
          geno, dvars, err, opts, pc, replicate, dicSaveGeno, dicSaveStat, args, collector,
          popSelCoef, sfs, files, statLines, live>>

\* --------------------------------------------------------------- helpers
RECURSIVE Sum(_)
Sum(s) == IF s = <<>> THEN 0 ELSE s[1] + Sum(Tail(s))

RECURSIVE Pow(_, _)
Pow(b, e) == IF e = 0 THEN 1 ELSE b * Pow(b, e - 1)

Last(s) == s[Len(s)]

SeqsOfLen(S, n) == [1..n -> S]

\* a whole number d is a power of two: k/d is then an exact binary fraction
Dyadic(d) == \E e \in 0..d : Pow(2, e) = d

\* ---------------------------------------------------- multiStageDemoFunc
\* Gens = [sum(G[:i]) for i in range(len(G)+1)]; Python Gens[i] is GensOf(g)[i+1]
GensOf(g) == [i \in 1..(Len(g) + 1) |-> Sum(SubSeq(g, 1, i - 1))]

\* mutant: the stage test reads Gens[i] <= gen <= Gens[i+1]
StageOf_ClosedStage(g, gn) ==
    LET Gs == GensOf(g)
        hit == {i \in 1..Len(g) : Gs[i] <= gn /\ gn <= Gs[i + 1]}
    IN IF hit = {} THEN 0 ELSE CHOOSE i \in hit : \A j \in hit : i <= j

\* the stage the loop of demoFunc stops at: the first i (1-based) with
\* Gens[i] <= gen < Gens[i+1]; 0 when the loop ends without a break
StageOf(g, gn) ==
    LET Gs == GensOf(g)
        hit == {i \in 1..Len(g) : Gs[i] <= gn /\ gn < Gs[i + 1]}
    IN IF hit = {} THEN 0 ELSE CHOOSE i \in hit : \A j \in hit : i <= j

\* mutant: round(...) in place of int(...)
GrowthSizes_Rounded(start, end, dur, k) ==
    LET t == Pow(start, dur - k) * Pow(end, k)
    IN {CHOOSE x \in start..end :
            Pow(2 * x - 1, dur) <= Pow(2, dur) * t /\ Pow(2, dur) * t < Pow(2 * x + 1, dur)}

\* int(N[i] * math.exp(r*(gen - Gens[i]))) with r = math.log(N[i+1]*1.0/N[i]) / G[i],
\* k = gen - Gens[i]; exp(0.0) is exactly 1.0, and so is exp(r*k) when r = log(1.0) = 0.0
GrowthSizes(start, end, dur, k) ==
    IF k = 0 \/ start = end THEN {start}
    ELSE LET t == Pow(start, dur - k) * Pow(end, k)
             m == CHOOSE x \in start..end : Pow(x, dur) <= t /\ t < Pow(x + 1, dur)
         IN IF Pow(m, dur) = t THEN {m - 1, m} ELSE {m}

\* mutant: a contraction or constant stage keeps the start size N[i]
StageSizes_KeepStart(n, g, gn) ==
    LET i == StageOf(g, gn)
        Gs == GensOf(g)
    IN IF i = 0 THEN {Last(n)}
       ELSE IF n[i] >= n[i + 1] THEN {n[i]}
       ELSE IF gn = Gs[i + 1] - 1 THEN {n[i + 1]}
       ELSE GrowthSizes(n[i], n[i + 1], g[i], gn - Gs[i])

\* mutant: no special case for the last generation of a growth stage
StageSizes_NoLastGen(n, g, gn) ==
    LET i == StageOf(g, gn)
        Gs == GensOf(g)
    IN IF i = 0 THEN {Last(n)}
       ELSE IF n[i] >= n[i + 1] THEN {n[i + 1]}
       ELSE GrowthSizes(n[i], n[i + 1], g[i], gn - Gs[i])

\* mutant: the default is the first size, sz = N[0]
StageSizes_DefaultFirst(n, g, gn) ==
    LET i == StageOf(g, gn)
        Gs == GensOf(g)
    IN IF i = 0 THEN {n[1]}
       ELSE IF n[i] >= n[i + 1] THEN {n[i + 1]}
       ELSE IF gn = Gs[i + 1] - 1 THEN {n[i + 1]}
       ELSE GrowthSizes(n[i], n[i + 1], g[i], gn - Gs[i])

\* the values sz can have when the loop of demoFunc is over
StageSizes(n, g, gn) ==
    LET i == StageOf(g, gn)
        Gs == GensOf(g)
    IN IF i = 0 THEN {Last(n)}
       ELSE IF n[i] >= n[i + 1] THEN {n[i + 1]}
       ELSE IF gn = Gs[i + 1] - 1 THEN {n[i + 1]}
       ELSE GrowthSizes(n[i], n[i + 1], g[i], gn - Gs[i])

\* int(sz*x) for the proportion x = num/SplitDen
TruncProd(sz, num) ==
    LET p == sz * num
        q == p \div SplitDen
    IN IF p % SplitDen = 0 /\ ~Dyadic(SplitDen) /\ q > 0 THEN {q - 1, q} ELSE {q}

\* sz1 = [int(sz*x) for x in splitTo], the first k entries
RECURSIVE SplitParts(_, _, _)
SplitParts(sz, st, k) ==
    IF k = 0 THEN {<<>>}
    ELSE {Append(s, v) : s \in SplitParts(sz, st, k - 1), v \in TruncProd(sz, st[k])}

\* mutant: the remainder is not added to the last entry
SplitSizes_NoRemainder(sz, st) == SplitParts(sz, st, Len(st))

\* sz1[-1] += sz - sum(sz1)
SplitSizes(sz, st) ==
    {[s EXCEPT ![Len(s)] = s[Len(s)] + sz - Sum(s)] : s \in SplitParts(sz, st, Len(st))}

\* what demoFunc returns for sz with nsp subpopulations: sz itself (a one-entry
\* sequence here) or the list sz1
DemoReturns(sz, nsp, st) == IF nsp = 1 THEN {<<sz>>} ELSE SplitSizes(sz, st)

\* pop.numSubPop() after "if len(splitTo) > 1 and gen == splitAt: pop.splitSubPop(0, splitTo)"
NumSubPopAfter(nsp, st, sa, gn) ==
    IF Len(st) > 1 /\ gn = sa THEN nsp + Len(st) - 1 ELSE nsp

\* one call demoFunc(gn, pop)
DemoFunc(gn) ==
    LET nsp == NumSubPopAfter(nSP, splitTo, splitAt, gn)
    IN /\ nSP' = nsp
       /\ \E sz \in StageSizes(N, G, gn) :
            \E r \in DemoReturns(sz, nsp, splitTo) :
                demoCall' = [gen |-> gn, nSP |-> nsp, sz |-> sz, ret |-> r]

\* ------------------------------------------------------------ pop.evolve
\* one generation of pop.evolve(..., gen = Gens[-1]): RandomMating asks
\* subPopSize = demoFunc(gen, pop) for the size of the offspring generation
Mating ==
    /\ gen < Last(GensOf(G))
    /\ DemoFunc(gen)
    /\ gen' = gen + 1
    /\ UNCHANGED <<N, G, splitTo, splitAt>>
    /\ UNCHANGED <<selVars, statVars, runVars>>

\* a call demoFunc(gn, pop) for a generation at or beyond Gens[-1], once the
\* evolution is over: no stage holds gn and the default sz = N[-1] stays
DemoFuncBeyondEnd ==
    /\ gen = Last(GensOf(G))
    /\ \E gn \in gen..(gen + 1) :
        /\ demoCall.gen < gn
        /\ DemoFunc(gn)
    /\ UNCHANGED <<N, G, splitTo, splitAt, gen>>
    /\ UNCHANGED <<selVars, statVars, runVars>>

\* ------------------------------------------------------------------ Init
Schedules ==
    UNION {SeqsOfLen(1..MaxSize, k + 1) \X SeqsOfLen(0..MaxDur, k) : k \in StageCounts}

\* proportions of a split into two or three subpopulations, and [1] for no split
RECURSIVE Compositions(_, _)
Compositions(total, parts) ==
    IF parts = 1 THEN {<<total>>}
    ELSE UNION {{<<a>> \o c : c \in Compositions(total - a, parts - 1)} :
                    a \in 1..(total - parts + 1)}

SplitTos == {<<SplitDen>>} \cup Compositions(SplitDen, 2) \cup Compositions(SplitDen, 3)

NoCall == [gen |-> -1, nSP |-> 1, sz |-> 0, ret |-> <<>>]

\* the other components at rest
NoDraw == [pc |-> "idle", branch |-> "none", u |-> 0, s |-> 0, ret |-> <<>>, gammaCalls |-> 0]
NoStats == [numSites |-> 0, avgSites |-> <<0, 1>>, avgFreq |-> <<0, 1>>, set |-> FALSE]

SelAtRest ==
    /\ selCoef = <<>>
    /\ selRange = <<0, 0>>
    /\ selDistFunc = "none"
    /\ draw = NoDraw

StatAtRest ==
    /\ geno = <<>>
    /\ dvars = NoStats
    /\ err = "none"

NoOpts == [numReps |-> 0, saveGenotype |-> 0, saveStat |-> 0, verbose |-> 0,
           revertFixedSites |-> FALSE, selDist |-> "none", selModel |-> "none",
           mutationModel |-> "none", steps |-> <<>>, regRange |-> <<0, 0>>, recRate |-> 0]
NoArgs == [statFile |-> <<>>, genotypeFile |-> <<>>, regInt |-> 0]
NoTable == [x \in {} |-> <<0, 0>>]
NoSelCoef == [kind |-> "unset", table |-> NoTable]

RunAtRest ==
    /\ opts = NoOpts
    /\ pc = "none"
    /\ replicate = 0
    /\ dicSaveGeno = <<>>
    /\ dicSaveStat = <<>>
    /\ args = NoArgs
    /\ collector = NoTable
    /\ popSelCoef = NoSelCoef
    /\ sfs = <<>>
    /\ files = {}
    /\ statLines = <<>>
    /\ live = {}

InitDemo ==
    /\ \E s \in Schedules : N = s[1] /\ G = s[2]
    /\ splitTo \in SplitTos
    /\ splitAt \in SplitAts
    /\ gen = 0
    /\ nSP = 1
    /\ demoCall = NoCall
    /\ SelAtRest
    /\ StatAtRest
    /\ RunAtRest

NextDemo == Mating

SpecDemo == InitDemo /\ [][NextDemo]_vars

\* the evolution followed by calls of the demographic function beyond its end
NextDemoBeyond == Mating \/ DemoFuncBeyondEnd

SpecDemoBeyond == InitDemo /\ [][NextDemoBeyond]_vars

\* ------------------------------------------- the schedule of the example
\* sizes [5000,5000,800,30000], durations [1000,479,141]; demoFunc is called
\* for generations of the two first stages, the first generation of the growth
\* stage, its last generation and the generation after the last
ExampleN == <<5000, 5000, 800, 30000>>
ExampleG == <<1000, 479, 141>>
ExampleGens == (0..1479) \cup {1619, 1620}

InitExample ==
    /\ N = ExampleN
    /\ G = ExampleG
    /\ splitTo = <<SplitDen>>
    /\ splitAt = 0
    /\ gen = 0
    /\ nSP = 1
    /\ demoCall = NoCall
    /\ SelAtRest
    /\ StatAtRest
    /\ RunAtRest

\* a call demoFunc(g, pop) on its own
Probe ==
    /\ \E g \in ExampleGens : DemoFunc(g)
    /\ UNCHANGED <<N, G, splitTo, splitAt, gen>>
    /\ UNCHANGED <<selVars, statVars, runVars>>

NextExample == Probe

SpecExample == InitExample /\ [][NextExample]_vars

\* -------------------------------------------------------- genSelDistFunc
DemoAtRest ==
    /\ N = <<>>
    /\ G = <<>>
    /\ splitTo = <<SplitDen>>
    /\ splitAt = 0
    /\ gen = 0
    /\ nSP = 1
    /\ demoCall = NoCall

\* mutant: no final else, an unsupported length falls through and returns None
FamilyOf_NoElse(len) ==
    CASE len = 2 -> "CONSTANT"
      [] len = 3 -> "GAMMA_DISTRIBUTION"
      [] len = 5 -> "mixedGamma5"
      [] len = 7 -> "mixedGamma7"
      [] len = 8 -> "complexMixedGamma8"
      [] len = 12 -> "complexMixedGamma12"
      [] OTHER -> "None"

\* the if/elif chain of genSelDistFunc on len(selCoef)
FamilyOf(len) ==
    IF len = 2 THEN "CONSTANT"
    ELSE IF len = 3 THEN "GAMMA_DISTRIBUTION"
    ELSE IF len = 5 THEN "mixedGamma5"
    ELSE IF len = 7 THEN "mixedGamma7"
    ELSE IF len = 8 THEN "complexMixedGamma8"
    ELSE IF len = 12 THEN "complexMixedGamma12"
    ELSE "ValueError"

\* the families genSelDistFunc returns as a Python function func()
Closures == {"mixedGamma5", "mixedGamma7", "complexMixedGamma8", "complexMixedGamma12"}
Complex(family) == family \in {"complexMixedGamma8", "complexMixedGamma12"}

\* mutant: the probability is read from selCoef[1]
BranchOf_WrongIndex(family, coef, u) ==
    IF u < coef[2] THEN "constant" ELSE "positive"

\* the branch func() takes for the uniform draw u: Python selCoef[0] is coef[1]
BranchOf(family, coef, u) ==
    IF u < coef[1] THEN "constant"
    ELSE IF ~Complex(family) THEN "positive"
    ELSE IF u < coef[1] + coef[3] THEN "positive"
    ELSE "negative"

\* the pair returned on the constant branch
ConstantOf(family, coef) ==
    IF Complex(family) THEN <<coef[2], coef[8]>> ELSE <<coef[2], coef[5]>>

\* h on the gamma branches
DominanceOf(family, coef) == IF Complex(family) THEN coef[8] ELSE coef[5]

\* mutant: the truncation test never holds
Accepts_Never(family, coef, branch, s) == FALSE

\* mutant: a sample equal to a bound is kept
Accepts_Closed(family, coef, branch, s) ==
    IF family = "mixedGamma7" THEN coef[6] <= s /\ s <= coef[7]
    ELSE IF family = "complexMixedGamma12" /\ branch = "positive"
         THEN coef[9] <= s /\ s <= coef[10]
    ELSE IF family = "complexMixedGamma12" THEN coef[11] <= s /\ s <= coef[12]
    ELSE TRUE

\* the truncation test on a raw sample: "if selCoef[5] < s < selCoef[6]" and its kin
Accepts(family, coef, branch, s) ==
    IF family = "mixedGamma7" THEN coef[6] < s /\ s < coef[7]
    ELSE IF family = "complexMixedGamma12" /\ branch = "positive" THEN coef[9] < s /\ s < coef[10]
    ELSE IF family = "complexMixedGamma12" THEN coef[11] < s /\ s < coef[12]
    ELSE TRUE

\* mutant: the upper limit is not applied
Clip_NoUpper(s, range) == IF s < range[1] THEN range[1] ELSE s

\* if s < selRange[0]: selRange[0]  elif s > selRange[1]: selRange[1]  else: s
Clip(s, range) ==
    IF s < range[1] THEN range[1]
    ELSE IF s > range[2] THEN range[2]
    ELSE s

\* mutant: the negative branch returns the clipped sample as it is
CoefficientOf_NoNegate(branch, s, range) == Clip(s, range)

\* the coefficient returned for an accepted sample
CoefficientOf(branch, s, range) ==
    IF branch = "negative" THEN 0 - Clip(s, range) ELSE Clip(s, range)

\* genSelDistFunc(selCoef, selRange)
GenSelDistFunc ==
    /\ selDistFunc = "none"
    /\ selDistFunc' = FamilyOf(Len(selCoef))
    /\ UNCHANGED <<selCoef, selRange, draw>>
    /\ UNCHANGED <<demoVars, statVars, runVars>>

\* func() up to its while loop: the uniform draw and the constant branch
FuncCall ==
    /\ selDistFunc \in Closures
    /\ draw.pc \in {"idle", "returned"}
    /\ \E u \in 0..(PDen - 1) :
        LET b == BranchOf(selDistFunc, selCoef, u)
        IN draw' = IF b = "constant"
                   THEN [pc |-> "returned", branch |-> b, u |-> u, s |-> 0,
                         ret |-> ConstantOf(selDistFunc, selCoef), gammaCalls |-> 0]
                   ELSE [pc |-> "loop", branch |-> b, u |-> u, s |-> 0,
                         ret |-> <<>>, gammaCalls |-> 0]
    /\ UNCHANGED <<selCoef, selRange, selDistFunc>>
    /\ UNCHANGED <<demoVars, statVars, runVars>>

\* one iteration of "while True: s = sim.getRNG().randGamma(...)"
GammaSample ==
    /\ draw.pc = "loop"
    /\ draw.gammaCalls < MaxGammaCalls
    /\ \E s \in 0..MaxGamma :
        draw' = IF Accepts(selDistFunc, selCoef, draw.branch, s)
                THEN [draw EXCEPT !.pc = "returned", !.s = s,
                                  !.ret = <<CoefficientOf(draw.branch, s, selRange),
                                            DominanceOf(selDistFunc, selCoef)>>,
                                  !.gammaCalls = @ + 1]
                ELSE [draw EXCEPT !.s = s, !.gammaCalls = @ + 1]
    /\ UNCHANGED <<selCoef, selRange, selDistFunc>>
    /\ UNCHANGED <<demoVars, statVars, runVars>>

\* parameter vectors: shape and scale are 1, h is 5, s is 0 or 2
Probs == 0..PDen
FixedCoefs == {0, 2}
\* truncation bounds with a sample strictly between them
TruncBounds == {b \in (0..MaxGamma) \X (0..MaxGamma) : b[1] + 2 <= b[2]}
ProbPairs == {pq \in Probs \X Probs : pq[1] + pq[2] <= PDen}
Vec5 == {<<p, s, 1, 1, 5>> : p \in Probs, s \in FixedCoefs}
Vec7 == {v \o b : v \in Vec5, b \in TruncBounds}
Vec8 == {<<pq[1], s, pq[2], 1, 1, 1, 1, 5>> : pq \in ProbPairs, s \in FixedCoefs}
Vec12 == {v \o b1 \o b2 : v \in Vec8, b1 \in TruncBounds, b2 \in TruncBounds}
VecOther == {[i \in 1..n |-> 1] : n \in (0..MaxVecLen) \ {5, 7, 8, 12}}
SelCoefs == Vec5 \cup Vec7 \cup Vec8 \cup Vec12 \cup VecOther
SelRanges == {r \in (0..MaxGamma) \X (0..MaxGamma) : r[1] <= r[2]}

InitSel ==
    /\ selCoef \in SelCoefs
    /\ selRange \in SelRanges
    /\ selDistFunc = "none"
    /\ draw = NoDraw
    /\ DemoAtRest
    /\ StatAtRest
    /\ RunAtRest

NextSel == GenSelDistFunc \/ FuncCall \/ GammaSample

SpecSel == InitSel /\ [][NextSel]_vars

\* ------------------------------------------- the draws as they go on for ever
\* one iteration of "while True" with no limit on the iterations: gammaCalls
\* counts them up to MaxGammaCalls and stays there
GammaSampleOn ==
    /\ draw.pc = "loop"
    /\ \E s \in 0..MaxGamma :
        LET calls == IF draw.gammaCalls < MaxGammaCalls THEN draw.gammaCalls + 1
                     ELSE MaxGammaCalls
        IN draw' = IF Accepts(selDistFunc, selCoef, draw.branch, s)
                   THEN [draw EXCEPT !.pc = "returned", !.s = s,
                                     !.ret = <<CoefficientOf(draw.branch, s, selRange),
                                               DominanceOf(selDistFunc, selCoef)>>,
                                     !.gammaCalls = calls]
                   ELSE [draw EXCEPT !.s = s, !.gammaCalls = calls]
    /\ UNCHANGED <<selCoef, selRange, selDistFunc>>
    /\ UNCHANGED <<demoVars, statVars, runVars>>

\* the iteration whose sample passes the truncation test
AcceptedSample == GammaSampleOn /\ draw'.pc = "returned"

\* truncation bounds l < u that lie below every sample of randGamma
BelowSamples == {<<0 - 2, 0>>}
BoundsOn == TruncBounds \cup BelowSamples
SelCoefsOn ==
    Vec5 \cup Vec8
    \cup {v \o b : v \in Vec5, b \in BoundsOn}
    \cup {v \o b1 \o b2 : v \in Vec8, b1 \in BoundsOn, b2 \in BoundsOn}

InitSelOn ==
    /\ selCoef \in SelCoefsOn
    /\ selRange \in SelRanges
    /\ selDistFunc = "none"
    /\ draw = NoDraw
    /\ DemoAtRest
    /\ StatAtRest
    /\ RunAtRest

NextSelOn == GenSelDistFunc \/ FuncCall \/ GammaSampleOn

\* a fair sampler: a sample the test accepts comes in the end, when there is one
SpecSelOn == InitSelOn /\ [][NextSelOn]_vars /\ WF_vars(AcceptedSample)

\* ------------------------------------------------- NumSegregationSites
RECURSIVE Concat(_)
Concat(ss) == IF ss = <<>> THEN <<>> ELSE ss[1] \o Concat(Tail(ss))

\* pop.genotype(): the slots of all haplotypes of all individuals, in order
Genotype(g) == Concat([i \in 1..Len(g) |-> g[i][1] \o g[i][2]])

\* geno.count(0)
CountOf(flat, x) == Cardinality({i \in 1..Len(flat) : flat[i] = x})

\* set(geno)
SetOf(flat) == {flat[i] : i \in 1..Len(flat)}

\* the non-wildtype positions of one haplotype
Mutants(hap) == SetOf(hap) \ {0}

\* the distinct non-wildtype positions of a population
SitesOf(g) == UNION {Mutants(g[i][h]) : i \in 1..Len(g), h \in 1..2}

\* the entries of seq that are not in drop, in order
RECURSIVE Without(_, _)
Without(seq, drop) ==
    IF seq = <<>> THEN <<>>
    ELSE IF seq[1] \in drop THEN Without(Tail(seq), drop)
    ELSE <<seq[1]>> \o Without(Tail(seq), drop)

\* a haplotype without the positions in drop: the rest moved up, zeros behind
Compact(hap, drop) ==
    LET kept == Without(hap, drop \cup {0})
    IN kept \o [i \in 1..(Len(hap) - Len(kept)) |-> 0]

\* the positions carried on every haplotype of the population
FixedSites(g) ==
    {x \in 1..MaxPos : \A i \in 1..Len(g) : \A h \in 1..2 : x \in Mutants(g[i][h])}

\* mutant: one call takes back the lowest fixed position only
RevertFixedSites_OneSite(g) ==
    LET fixed == FixedSites(g)
        first == {x \in fixed : \A y \in fixed : x <= y}
    IN [i \in 1..Len(g) |-> [h \in 1..2 |-> Compact(g[i][h], first)]]

\* revertFixedSites(pop) of simuPOP: every fixed position back to wildtype
RevertFixedSites(g) ==
    LET fixed == FixedSites(g)
    IN [i \in 1..Len(g) |-> [h \in 1..2 |-> Compact(g[i][h], fixed)]]

\* numMutants = float(len(geno) - geno.count(0))
NumMutants(flat) == Len(flat) - CountOf(flat, 0)

\* numSites = len(set(geno)) - 1
NumSites(flat) == Cardinality(SetOf(flat)) - 1

\* mutant: the factor 2 of the two haplotypes is left out
AvgFreq_NoPloidy(numMutants, numSites, popSize) ==
    IF numMutants = 0 THEN <<0, 1>> ELSE <<numMutants, numSites * popSize>>

\* "if numMutants == 0: avgFreq = 0 else: avgFreq = numMutants / numSites / (2*pop.popSize())"
\* as the fraction <<numerator, denominator>>; a denominator 0 is a ZeroDivisionError
AvgFreq(numMutants, numSites, popSize) ==
    IF numMutants = 0 THEN <<0, 1>> ELSE <<numMutants, numSites * (2 * popSize)>>

\* float(numMutants) / pop.popSize()
AvgSites(numMutants, popSize) == <<numMutants, popSize>>

\* NumSegregationSites.countSites(pop)
CountSites ==
    LET g == RevertFixedSites(geno)
        flat == Genotype(g)
        numMutants == NumMutants(flat)
        numSites == NumSites(flat)
        avgFreq == AvgFreq(numMutants, numSites, Len(g))
        avgSites == AvgSites(numMutants, Len(g))
    IN /\ err = "none"
       /\ geno' = g
       /\ IF avgFreq[2] = 0
          THEN err' = "ZeroDivisionError" /\ UNCHANGED dvars
          ELSE IF avgSites[2] = 0
          THEN /\ err' = "ZeroDivisionError"
               /\ dvars' = [dvars EXCEPT !.numSites = numSites, !.set = TRUE]
          ELSE /\ err' = err
               /\ dvars' = [numSites |-> numSites, avgSites |-> avgSites,
                            avgFreq |-> avgFreq, set |-> TRUE]
       /\ UNCHANGED <<demoVars, selVars, runVars>>

\* MutSpaceMutator, finite sites, one mutation event at position x of haplotype h
\* of individual i: a position already carried goes back to wildtype, a new one
\* takes the first free slot
MutateHaplotype(hap, x) ==
    IF x \in Mutants(hap) THEN Compact(hap, {x})
    ELSE LET free == CHOOSE k \in 1..Len(hap) : hap[k] = 0 /\ \A j \in 1..(k - 1) : hap[j] # 0
         IN [hap EXCEPT ![free] = x]

Mutate ==
    /\ err = "none"
    /\ \E i \in 1..Len(geno), h \in 1..2, x \in 1..MaxPos :
        /\ x \in Mutants(geno[i][h]) \/ 0 \in SetOf(geno[i][h])
        /\ geno' = [geno EXCEPT ![i][h] = MutateHaplotype(geno[i][h], x)]
    /\ UNCHANGED <<dvars, err>>
    /\ UNCHANGED <<demoVars, selVars, runVars>>

\* sim.Population(size=N[0], loci=[10]*len(regions)): every slot wildtype
InitStat ==
    /\ \E n \in PopSizes : geno = [i \in 1..n |-> [h \in 1..2 |-> [k \in 1..Slots |-> 0]]]
    /\ dvars = NoStats
    /\ err = "none"
    /\ DemoAtRest
    /\ SelAtRest
    /\ RunAtRest

NextStat == Mutate \/ CountSites

SpecStat == InitStat /\ [][NextStat]_vars

\* ------------------------------------------------------------ srvOutput
\* mutant: the comment line carries idx, not idx + 1
CommentLine_Index(rep, regInt) ==
    [kind |-> "comment", rep |-> rep - 1, len |-> regInt, pos |-> 0, maf |-> 0, sel |-> 0]

\* the lines of the .sfs file: the header, '# Replicate #rep gene length = len',
\* and the rows 'name chr-rep pos maf sel' with maf and sel as '%.8f' prints them
HeaderLine == [kind |-> "header", rep |-> 0, len |-> 0, pos |-> 0, maf |-> 0, sel |-> 0]
CommentLine(rep, regInt) ==
    [kind |-> "comment", rep |-> rep, len |-> regInt, pos |-> 0, maf |-> 0, sel |-> 0]
RowLine(rep, marker, maf, s) ==
    [kind |-> "row", rep |-> rep, len |-> 0, pos |-> marker, maf |-> maf, sel |-> s]

\* mutant: range(1, save) for a count of replicates
SaveNums_Exclusive(save, numReps) == IF save = -1 THEN 1..numReps ELSE 1..(save - 1)

\* saveGenoNum and saveStatNum: range(1, numReps+1) for -1, else range(1, save+1)
SaveNums(save, numReps) == IF save = -1 THEN 1..numReps ELSE 1..save

\* dicSaveGeno and dicSaveStat: the file name <<ext, i>> for fileName_rep_i.ext, <<>> for ''
DicSave(save, numReps, ext) ==
    [i \in 1..numReps |-> IF i \in SaveNums(save, numReps) THEN <<ext, i>> ELSE <<>>]

\* srvOutput up to its loop: the header goes to the file opened with 'w'
SrvOutput ==
    /\ pc = "srvOutput"
    /\ sfs' = <<HeaderLine>>
    /\ dicSaveGeno' = DicSave(opts.saveGenotype, opts.numReps, "ped")
    /\ dicSaveStat' = DicSave(opts.saveStat, opts.numReps, "stat")
    /\ pc' = "loop"
    /\ UNCHANGED <<opts, replicate, args, collector, popSelCoef, files, statLines, live>>
    /\ UNCHANGED <<demoVars, selVars, statVars>>

\* ----------------------------------------------------- simuRareVariants
\* the names with a default parameter vector; 'mixed_gamma' of the option table
\* has none
NamedDists == {"Kyrukov_2009_European", "Eyre-Walker_2006", "Boyko_2008_African",
               "Boyko_2008_European", "constant"}

\* the names the selDist option offers (chooseOneOf)
OfferedDists == NamedDists \cup {"mixed_gamma"}

\* the default vectors: [0.01, 0.5] for 'constant', else [0.37, 0.0, k, d, 0.5];
\* in the units of the model s = 0.01 is 1, h = 0.5 is 5, the probability 0.37
\* is 1/PDen, shape and scale are 1
DefaultSelCoef(selDist) == IF selDist = "constant" THEN <<1, 5>> ELSE <<1, 0, 1, 1, 5>>

\* selCoef after "if selCoef == []: ... else: selCoef = selCoef"
EffectiveSelCoef(coef, selDist) == IF coef = <<>> THEN DefaultSelCoef(selDist) ELSE coef

Modes == {"multiplicative", "additive", "exponential"}
MutationModels == {"finite_sites", "infinite_sites"}

\* steps after "if len(steps) == 0: steps = G elif len(steps) == 1: steps = steps * len(G)"
StepsOf(steps, g) ==
    IF Len(steps) = 0 THEN g
    ELSE IF Len(steps) = 1 THEN [i \in 1..Len(g) |-> steps[1]]
    ELSE steps

\* progGen, when range(Gens[i], Gens[i+1], steps[i]) is defined for every stage
ProgGen(g, steps) ==
    LET Gs == GensOf(g)
        st == StepsOf(steps, g)
    IN UNION {{x \in Gs[i]..(Gs[i + 1] - 1) : (x - Gs[i]) % st[i] = 0} : i \in 1..Len(g)}

\* mutant: the mutation model is not looked up
SetupError_AnyModel(coef, o, g) ==
    LET st == StepsOf(o.steps, g)
    IN IF coef = <<>> /\ o.selDist \notin NamedDists THEN "ValueError"
       ELSE IF o.selModel \notin Modes THEN "KeyError"
       ELSE IF FamilyOf(Len(EffectiveSelCoef(coef, o.selDist))) = "ValueError" THEN "ValueError"
       ELSE IF \E i \in 1..Len(g) : i > Len(st) THEN "IndexError"
       ELSE IF \E i \in 1..Len(g) : st[i] = 0 THEN "ValueError"
       ELSE "none"

\* the exception raised by the code of simuRareVariants before pop.evolve runs
\* a generation, in the order of the code, or "none"
SetupError(coef, o, g) ==
    LET st == StepsOf(o.steps, g)
    IN IF coef = <<>> /\ o.selDist \notin NamedDists THEN "ValueError"
       ELSE IF o.selModel \notin Modes THEN "KeyError"
       ELSE IF FamilyOf(Len(EffectiveSelCoef(coef, o.selDist))) = "ValueError" THEN "ValueError"
       ELSE IF \E i \in 1..Len(g) : i > Len(st) THEN "IndexError"
       ELSE IF \E i \in 1..Len(g) : st[i] = 0 THEN "ValueError"
       ELSE IF o.mutationModel \notin MutationModels THEN "KeyError"
       ELSE "none"

\* sim.Population(size=N[0], loci=[10]*len(regions)); two slots stand for the ten
BlankHaplotype == <<0, 0>>
NewPopulation(size) == [i \in 1..size |-> [h \in 1..2 |-> BlankHaplotype]]

\* one turn of the loop of srvOutput: the call of simuRareVariants, up to pop.evolve
SimuRareVariants ==
    /\ pc = "loop"
    /\ replicate < opts.numReps
    /\ replicate' = replicate + 1
    /\ \E regInt \in opts.regRange[1]..opts.regRange[2] :
        args' = [statFile |-> dicSaveStat[replicate + 1],
                 genotypeFile |-> dicSaveGeno[replicate + 1], regInt |-> regInt]
    /\ LET e == SetupError(selCoef, opts, G)
       IN IF e # "none"
          THEN /\ err' = e
               /\ pc' = "aborted"
               /\ UNCHANGED <<selDistFunc, geno, gen, nSP, demoCall, collector, dvars,
                              popSelCoef, statLines, live>>
          ELSE /\ err' = err
               /\ pc' = "preOps"
               /\ selDistFunc' = FamilyOf(Len(EffectiveSelCoef(selCoef, opts.selDist)))
               /\ geno' = NewPopulation(N[1])
               /\ gen' = 0
               /\ nSP' = 1
               /\ demoCall' = NoCall
               /\ collector' = NoTable
               /\ dvars' = NoStats
               /\ popSelCoef' = NoSelCoef
               /\ statLines' = <<>>
               /\ live' = {}
    /\ UNCHANGED <<N, G, splitTo, splitAt, selCoef, selRange, draw>>
    /\ UNCHANGED <<opts, dicSaveGeno, dicSaveStat, sfs, files>>

\* the preOps of a generation up to the mutator: RevertFixedSites() is in the
\* list only in the branch "if revertFixedSites:"
PreOps ==
    /\ pc = "preOps"
    /\ gen < Last(GensOf(G))
    /\ geno' = IF opts.revertFixedSites THEN RevertFixedSites(geno) ELSE geno
    /\ live' = SitesOf(geno')
    /\ pc' = "mutator"
    /\ UNCHANGED <<dvars, err>>
    /\ UNCHANGED <<opts, replicate, dicSaveGeno, dicSaveStat, args, collector, popSelCoef,
                   sfs, files, statLines>>
    /\ UNCHANGED <<demoVars, selVars>>

\* MutSpaceMutator(mu, ranges, model): one mutation event at a position of the
\* region chr1:1..regInt.  Finite sites: as Mutate.  Infinite sites: the event
\* lands on a position no haplotype carries, or is dropped.
MutSpaceMutator ==
    /\ pc = "mutator"
    /\ \E i \in 1..Len(geno), h \in 1..2, x \in 1..args.regInt :
        /\ IF opts.mutationModel = "finite_sites"
           THEN x \in Mutants(geno[i][h]) \/ 0 \in SetOf(geno[i][h])
           ELSE x \notin SitesOf(geno) /\ 0 \in SetOf(geno[i][h])
        /\ geno' = [geno EXCEPT ![i][h] = MutateHaplotype(geno[i][h], x)]
    /\ UNCHANGED <<dvars, err>>
    /\ UNCHANGED <<opts, pc, replicate, dicSaveGeno, dicSaveStat, args, collector,
                   popSelCoef, sfs, files, statLines, live>>
    /\ UNCHANGED <<demoVars, selVars>>

\* the elements of a set of numbers in increasing order
RECURSIVE SortSet(_)
SortSet(S) ==
    IF S = {} THEN <<>>
    ELSE LET m == CHOOSE x \in S : \A y \in S : x <= y
         IN <<m>> \o SortSet(S \ {m})

\* the pairs (s, h) a generator of the family can give
DrawResults(family, coef, range) ==
    IF family = "CONSTANT" THEN {<<coef[1], coef[2]>>}
    ELSE IF family = "GAMMA_DISTRIBUTION" THEN {<<s, coef[3]>> : s \in 0..MaxGamma}
    ELSE UNION {LET b == BranchOf(family, coef, u)
                IN IF b = "constant" THEN {ConstantOf(family, coef)}
                   ELSE {<<CoefficientOf(b, s, range), DominanceOf(family, coef)>> :
                            s \in {t \in 0..MaxGamma : Accepts(family, coef, b, t)}} :
                u \in 0..(PDen - 1)}

\* what MutSpaceSelector hands to its output: one line <<mut, sel, h>> for every
\* mutant it meets for the first time
Reports(new, draws) ==
    LET order == SortSet(new)
    IN {[k \in 1..Len(order) |-> <<order[k], d[k][1], d[k][2]>>] :
            d \in [1..Len(order) -> draws]}

\* mutant: getCoef keeps the first line only
GetCoef_FirstLine(table, lines) ==
    IF lines = <<>> THEN table
    ELSE LET l == Head(lines)
         IN [x \in DOMAIN table \cup {l[1]} |->
                IF x = l[1] THEN <<l[2], l[3]>> ELSE table[x]]

\* fitnessCollector.getCoef(lines): self.selCoef[int(mut)] = float(sel), float(h)
RECURSIVE GetCoef(_, _)
GetCoef(table, lines) ==
    IF lines = <<>> THEN table
    ELSE LET l == Head(lines)
         IN GetCoef([x \in DOMAIN table \cup {l[1]} |->
                        IF x = l[1] THEN <<l[2], l[3]>> ELSE table[x]], Tail(lines))

\* countSites(pop) on the population g: the population, the variables and the
\* exception it leaves
CountSitesOf(g0, dv) ==
    LET g == RevertFixedSites(g0)
        flat == Genotype(g)
        numMutants == NumMutants(flat)
        numSites == NumSites(flat)
        avgFreq == AvgFreq(numMutants, numSites, Len(g))
        avgSites == AvgSites(numMutants, Len(g))
    IN IF avgFreq[2] = 0
       THEN [geno |-> g, dvars |-> dv, err |-> "ZeroDivisionError"]
       ELSE IF avgSites[2] = 0
       THEN [geno |-> g, dvars |-> [dv EXCEPT !.numSites = numSites, !.set = TRUE],
             err |-> "ZeroDivisionError"]
       ELSE [geno |-> g,
             dvars |-> [numSites |-> numSites, avgSites |-> avgSites,
                        avgFreq |-> avgFreq, set |-> TRUE],
             err |-> "none"]

\* the mutants MutSpaceSelector may take for new: every position it never
\* reported, and any of those that were not in the population when the
\* generation began (lost and mutated again)
NewMutants(g, table, alive) ==
    LET sites == SitesOf(g)
    IN {(sites \ DOMAIN table) \cup again :
            again \in SUBSET ((sites \cap DOMAIN table) \ alive)}

\* a line of the statistics file, for the PyEval of the preOps or of the finalOps
StatRecord(gn, final) == [gen |-> gn, final |-> final]

\* the rest of the preOps: mySelector reports the new mutants to the collector,
\* then the two sim.IfElse(..., at = progGen) with NumSegregationSites()
Selector ==
    /\ pc = "mutator"
    /\ LET draws == DrawResults(selDistFunc, EffectiveSelCoef(selCoef, opts.selDist),
                                selRange)
       IN collector' \in {GetCoef(collector, lines) :
                              lines \in UNION {Reports(new, draws) :
                                                 new \in NewMutants(geno, collector, live)}}
    /\ IF gen \in ProgGen(G, opts.steps) /\ (opts.verbose > 0 \/ args.statFile # <<>>)
       THEN LET r == CountSitesOf(geno, dvars)
            IN /\ geno' = r.geno
               /\ dvars' = r.dvars
               /\ err' = r.err
               /\ pc' = IF r.err = "none" THEN "mating" ELSE "aborted"
               /\ files' = IF args.statFile # <<>> /\ r.err = "none"
                           THEN files \cup {args.statFile} ELSE files
               /\ statLines' = IF args.statFile # <<>> /\ r.err = "none"
                               THEN Append(statLines, StatRecord(gen, FALSE))
                               ELSE statLines
       ELSE /\ pc' = "mating"
            /\ UNCHANGED <<geno, dvars, err, files, statLines>>
    /\ live' = {}
    /\ UNCHANGED <<opts, replicate, dicSaveGeno, dicSaveStat, args, popSelCoef, sfs>>
    /\ UNCHANGED <<demoVars, selVars>>

\* N[i+1] of demoFunc is read past the end of N
DemoRaises(n, g, gn) == LET i == StageOf(g, gn) IN i # 0 /\ i + 1 > Len(n)

\* the haplotypes of the parental generation
ParentHaplotypes(g) == {g[i][h] : i \in 1..Len(g), h \in 1..2}

\* the haplotype with the positions of h1 up to the breakpoint bp and those of h2
\* beyond it
Crossed(h1, h2, bp) ==
    LET kept == SortSet({x \in Mutants(h1) : x <= bp} \cup {x \in Mutants(h2) : x > bp})
    IN kept \o [i \in 1..(Len(h1) - Len(kept)) |-> 0]

\* mutant: breakpoints are drawn whatever the rate
Transmitted_AnyRate(ind, recRate) ==
    {ind[1], ind[2]}
    \cup {Crossed(ind[a], ind[3 - a], bp) :
            a \in 1..2, bp \in Mutants(ind[1]) \cup Mutants(ind[2])}

\* MutSpaceRecombinator(recRate, ranges): the haplotypes a parent can pass on,
\* one of its two, or with a positive rate one crossed at a breakpoint
Transmitted(ind, recRate) ==
    IF recRate = 0 THEN {ind[1], ind[2]}
    ELSE {ind[1], ind[2]}
         \cup {Crossed(ind[a], ind[3 - a], bp) :
                 a \in 1..2, bp \in Mutants(ind[1]) \cup Mutants(ind[2])}

\* the offspring generations of size sz: every offspring haplotype is passed on
\* by an individual of the parental generation
Offspring(g, sz, recRate) ==
    [1..sz -> [1..2 -> UNION {Transmitted(g[i], recRate) : i \in 1..Len(g)}]]

\* sim.RandomMating(subPopSize = multiStageDemoFunc(N, G, splitTo, splitAt))
RandomMating ==
    /\ pc = "mating"
    /\ IF DemoRaises(N, G, gen)
       THEN /\ err' = "IndexError"
            /\ pc' = "aborted"
            /\ UNCHANGED <<gen, nSP, demoCall, geno>>
       ELSE /\ DemoFunc(gen)
            /\ geno' \in Offspring(geno, Sum(demoCall'.ret), opts.recRate)
            /\ gen' = gen + 1
            /\ pc' = "preOps"
            /\ err' = err
    /\ UNCHANGED <<N, G, splitTo, splitAt, dvars>>
    /\ UNCHANGED <<opts, replicate, dicSaveGeno, dicSaveStat, args, collector, popSelCoef,
                   sfs, files, statLines, live>>
    /\ UNCHANGED selVars

\* mutant: no RevertFixedSites() among the finalOps
FinalReverted_Skipped(revert, g) == g

\* the first of the finalOps: RevertFixedSites() in the branch "if revertFixedSites:",
\* commented out in the other
FinalReverted(revert, g) == IF revert THEN RevertFixedSites(g) ELSE g

\* the finalOps of pop.evolve and "record selection coefficients to population"
FinalOps ==
    /\ pc = "preOps"
    /\ gen = Last(GensOf(G))
    /\ LET g == FinalReverted(opts.revertFixedSites, geno)
           r == CountSitesOf(g, dvars)
       IN IF opts.verbose > 0
          THEN /\ geno' = r.geno
               /\ dvars' = r.dvars
               /\ err' = r.err
               /\ pc' = IF r.err = "none" THEN "save" ELSE "aborted"
               /\ files' = IF args.statFile # <<>> /\ r.err = "none"
                           THEN files \cup {args.statFile} ELSE files
               /\ statLines' = IF args.statFile # <<>> /\ r.err = "none"
                               THEN Append(statLines, StatRecord(gen, TRUE))
                               ELSE statLines
          ELSE /\ geno' = g
               /\ pc' = "save"
               /\ UNCHANGED <<dvars, err, files, statLines>>
    /\ popSelCoef' = IF DOMAIN collector = {}
                     THEN [kind |-> "int", table |-> NoTable]
                     ELSE [kind |-> "dict", table |-> collector]
    /\ UNCHANGED <<opts, replicate, dicSaveGeno, dicSaveStat, args, collector, sfs, live>>
    /\ UNCHANGED <<demoVars, selVars>>

\* ------------------------------------------------- saveMarkerInfoToFile
\* mutants = counts.keys(); mutants.sort(); if mutants[0] == 0: mutants = mutants[1:]
MarkersOf(g) ==
    LET keys == SortSet(SetOf(Genotype(g)))
    IN IF keys[1] = 0 THEN Tail(keys) ELSE keys

\* '%.8f' % (num/den), as a whole number of 1e-8
Scale8 == 100000000
FormatF8(num, den) == (2 * num * Scale8 + den) \div (2 * den)

\* mutant: the minor allele frequency is the variant allele frequency
MafOf_Vaf(c, sz) == <<c, sz>>

\* vaf_marker = counts[marker] / sz; maf_marker = vaf if vaf <= 0.5 else 1 - vaf
MafOf(c, sz) == IF 2 * c <= sz THEN <<c, sz>> ELSE <<sz - c, sz>>

\* mutant: the file is opened with 'w'
Appended_Truncating(file, lines) == lines

\* outFile = open(fileName + '.sfs', 'a'); print >> outFile, ...; outFile.close()
Appended(file, lines) == file \o lines

\* the markers whose selCoefficient[marker][0] raises
LookupFails(ms, sc) ==
    {k \in 1..Len(ms) : sc.kind # "dict" \/ ms[k] \notin DOMAIN sc.table}

\* saveMarkerInfoToFile(pop, markerFile, regInt, replicate): the comment line
\* and one row per marker are appended; a failed lookup ends the run
SaveMarkerInfoToFile ==
    /\ pc = "save"
    /\ LET ms == MarkersOf(geno)
           bad == LookupFails(ms, popSelCoef)
           n == IF bad = {} THEN Len(ms) ELSE (CHOOSE k \in bad : \A j \in bad : k <= j) - 1
           sz == 2 * Len(geno)
           rows == [k \in 1..n |->
                      LET maf == MafOf(CountOf(Genotype(geno), ms[k]), sz)
                      IN RowLine(replicate, ms[k], FormatF8(maf[1], maf[2]),
                                 popSelCoef.table[ms[k]][1])]
       IN /\ sfs' = Appended(sfs, <<CommentLine(replicate, args.regInt)>> \o rows)
          /\ IF bad = {}
             THEN pc' = "loop" /\ err' = err
             ELSE /\ pc' = "aborted"
                  /\ err' = IF popSelCoef.kind # "dict" THEN "TypeError" ELSE "KeyError"
    /\ UNCHANGED <<geno, dvars>>
    /\ UNCHANGED <<opts, replicate, dicSaveGeno, dicSaveStat, args, collector, popSelCoef,
                   files, statLines, live>>
    /\ UNCHANGED <<demoVars, selVars>>

\* open(fileName + '.sfs', 'a') raises IOError
OpenFails ==
    /\ pc = "save"
    /\ pc' = "aborted"
    /\ err' = "IOError"
    /\ UNCHANGED <<geno, dvars>>
    /\ UNCHANGED <<opts, replicate, dicSaveGeno, dicSaveStat, args, collector, popSelCoef,
                   sfs, files, statLines, live>>
    /\ UNCHANGED <<demoVars, selVars>>

\* the loop of srvOutput is over
Return ==
    /\ pc = "loop"
    /\ replicate = opts.numReps
    /\ pc' = "done"
    /\ UNCHANGED <<opts, replicate, dicSaveGeno, dicSaveStat, args, collector, popSelCoef,
                   sfs, files, statLines, live>>
    /\ UNCHANGED <<demoVars, selVars, statVars>>

\* ---------------------------------------------------- the runs followed
MaxReps == 2        \* numReps ranges over 1..MaxReps

BaseRun ==
    [N |-> <<1, 1>>, G |-> <<1>>, selCoef |-> <<2, 5>>,
     opts |-> [numReps |-> 1, saveGenotype |-> 0, saveStat |-> 0, verbose |-> 0,
               revertFixedSites |-> FALSE, selDist |-> "constant", selModel |-> "additive",
               mutationModel |-> "finite_sites", steps |-> <<1>>, regRange |-> <<2, 2>>,
               recRate |-> 0]]

\* schedules of a run; the last three have len(G) # len(N) - 1
RunSchedules ==
    {<<<<1, 1>>, <<1>>>>, <<<<2, 2>>, <<2>>>>, <<<<1, 2>>, <<2>>>>, <<<<2, 1>>, <<0, 1>> >>,
     <<<<1, 1, 1>>, <<1>>>>, <<<<1, 1>>, <<1, 1>>>>, <<<<1>>, <<1>>>>}

\* runs of one replicate over the schedules, the reversion flag, the verbosity
\* and the statistics file
EvolveRuns ==
    {[BaseRun EXCEPT !.N = s[1], !.G = s[2], !.opts.revertFixedSites = r,
                     !.opts.verbose = v, !.opts.saveStat = st] :
        s \in RunSchedules, r \in BOOLEAN, v \in {-1, 0, 1}, st \in {0, -1}}

\* runs of several replicates over the two file options
DriverRuns ==
    {[BaseRun EXCEPT !.opts.numReps = n, !.opts.saveStat = st, !.opts.saveGenotype = 0] :
        n \in 1..MaxReps, st \in -2..(MaxReps + 1)}
    \cup {[BaseRun EXCEPT !.opts.numReps = n, !.opts.saveGenotype = sg] :
            n \in 1..MaxReps, sg \in -1..(MaxReps + 1)}

\* runs over the selection vector, the named distribution, the fitness mode and
\* the mutation model, supported or not
SelectionRuns ==
    {[BaseRun EXCEPT !.selCoef = c, !.opts.selDist = d, !.opts.selModel = m,
                     !.opts.mutationModel = mm] :
        c \in {<<>>, <<2, 5>>, <<1>>, <<1, 1, 1, 1>>},
        d \in NamedDists \cup {"mixed_gamma", "unknown"},
        m \in Modes \cup {"other"},
        mm \in MutationModels \cup {"other"}}

\* runs with a positive recombination rate
RecombinationRuns ==
    {[BaseRun EXCEPT !.N = s[1], !.G = s[2], !.opts.recRate = 1] :
        s \in {<<<<1, 1>>, <<2>>>>, <<<<2, 2>>, <<1>>>>}}

\* a run of two generations that draws its coefficients from a gamma distribution
ReportRuns == {[BaseRun EXCEPT !.G = <<2>>, !.selCoef = <<1, 1, 5>>]}

\* runs that write the statistics file, by steps: unspecified or one value
StepsRuns ==
    {[BaseRun EXCEPT !.N = s[1], !.G = s[2], !.opts.steps = st, !.opts.saveStat = -1] :
        s \in {<<<<1, 1>>, <<2>>>>, <<<<1, 1, 1>>, <<1, 2>>>>},
        st \in {<<>>, <<1>>, <<2>>}}

RunConfigs ==
    EvolveRuns \cup DriverRuns \cup SelectionRuns \cup RecombinationRuns \cup ReportRuns
    \cup StepsRuns

InitRun ==
    /\ \E c \in RunConfigs :
        /\ N = c.N
        /\ G = c.G
        /\ selCoef = c.selCoef
        /\ opts = c.opts
    /\ splitTo = <<SplitDen>>
    /\ splitAt = 0
    /\ gen = 0
    /\ nSP = 1
    /\ demoCall = NoCall
    /\ selRange = <<1, 2>>
    /\ selDistFunc = "none"
    /\ draw = NoDraw
    /\ StatAtRest
    /\ pc = "srvOutput"
    /\ replicate = 0
    /\ dicSaveGeno = <<>>
    /\ dicSaveStat = <<>>
    /\ args = NoArgs
    /\ collector = NoTable
    /\ popSelCoef = NoSelCoef
    /\ sfs = <<>>
    /\ files = {}
    /\ statLines = <<>>
    /\ live = {}

NextRun ==
    \/ SrvOutput
    \/ SimuRareVariants
    \/ PreOps
    \/ MutSpaceMutator
    \/ Selector
    \/ RandomMating
    \/ FinalOps
    \/ SaveMarkerInfoToFile
    \/ OpenFails
    \/ Return

SpecRun == InitRun /\ [][NextRun]_vars

\* =========================================================== the claims
\* the start of stage i, 1-based: the sum of the first i-1 durations
StageStart(i) == Sum(SubSeq(G, 1, i - 1))
StageEnd(i) == Sum(SubSeq(G, 1, i))
Called == demoCall.gen >= 0
InStage(i) == Called /\ StageStart(i) <= demoCall.gen /\ demoCall.gen < StageEnd(i)
\* the size demoFunc stands for: the value returned, or the sum of the list returned
Returned == IF demoCall.nSP = 1 THEN demoCall.ret[1] ELSE Sum(demoCall.ret)
ReturnedAt(g, size) == demoCall.gen = g => demoCall.ret = <<size>>

\* C1 as stated: for sizes [5000,5000,800,30000] and durations [1000,479,141]
\* demoFunc returns 5000 at generations 0 and 999, 800 at generations 1000 and
\* 1478, and exactly 30000 at generation 1479.
C1_AsStated ==
    /\ ReturnedAt(0, 5000)
    /\ ReturnedAt(999, 5000)
    /\ ReturnedAt(1000, 800)
    /\ ReturnedAt(1478, 800)
    /\ ReturnedAt(1479, 30000)

\* C1 amended: 5000 at generations 0 and 999, 800 at generations 1000 and 1478
\* and also at 1479, the first generation of the growth stage; exactly 30000 at
\* generation 1619, the last generation of the growth stage.
C1_ExampleSchedule ==
    /\ ReturnedAt(0, 5000)
    /\ ReturnedAt(999, 5000)
    /\ ReturnedAt(1000, 800)
    /\ ReturnedAt(1478, 800)
    /\ ReturnedAt(1479, 800)
    /\ ReturnedAt(1619, 30000)

C1_Witness == demoCall.gen = 1619 /\ demoCall.ret = <<30000>>

\* C2: in a stage i with N[i] >= N[i+1], at every generation of the stage, the
\* first included, demoFunc gives the end size N[i+1] (as the value returned, or
\* as the total of the list returned for a split population).
C2_ContractionImmediate ==
    \A i \in 1..Len(G) :
        (N[i] >= N[i + 1] /\ InStage(i)) =>
            /\ demoCall.sz = N[i + 1]
            /\ Returned = N[i + 1]
            /\ (demoCall.nSP = 1 => demoCall.ret = <<N[i + 1]>>)

C2_Witness ==
    \E i \in 1..Len(G) :
        /\ N[i] > N[i + 1]
        /\ demoCall.gen = StageStart(i)
        /\ InStage(i)
        /\ demoCall.ret = <<N[i + 1]>>

\* C3: at the last generation of a growth stage i with G[i] >= 1 demoFunc gives
\* exactly N[i+1].
C3_LastGenerationExact ==
    \A i \in 1..Len(G) :
        (N[i] < N[i + 1] /\ G[i] >= 1 /\ Called /\ demoCall.gen = StageEnd(i) - 1) =>
            /\ demoCall.sz = N[i + 1]
            /\ Returned = N[i + 1]

\* a last generation at which the exponential formula gives less than N[i+1]
C3_Witness ==
    \E i \in 1..Len(G) :
        /\ N[i] + 1 < N[i + 1]
        /\ G[i] >= 2
        /\ demoCall.gen = StageEnd(i) - 1
        /\ demoCall.ret = <<N[i + 1]>>

\* the generations of growth stage i that are not its last, with k = gen - stageStart
\* and v^G[i] = N[i]^(G[i]-k) * N[i+1]^k for v = N[i] * exp(r*k)
GrowthCase(i) == N[i] < N[i + 1] /\ InStage(i) /\ demoCall.gen < StageEnd(i) - 1
VPow(i) ==
    LET k == demoCall.gen - StageStart(i)
    IN Pow(N[i], G[i] - k) * Pow(N[i + 1], k)

\* C4 as stated: there the size is v rounded to the nearest integer,
\* sz - 1/2 <= v < sz + 1/2.
C4_AsStated ==
    \A i \in 1..Len(G) :
        GrowthCase(i) =>
            /\ Pow(2 * demoCall.sz - 1, G[i]) <= Pow(2, G[i]) * VPow(i)
            /\ Pow(2, G[i]) * VPow(i) < Pow(2 * demoCall.sz + 1, G[i])

\* C4 amended: there the size is v truncated to an integer (int(), not round()):
\* sz <= v < sz + 1, or sz = v - 1 for a whole v that floating point misses from below.
C4_Truncated ==
    \A i \in 1..Len(G) :
        GrowthCase(i) =>
            /\ Pow(demoCall.sz, G[i]) <= VPow(i)
            /\ VPow(i) <= Pow(demoCall.sz + 1, G[i])

\* a generation where truncating and rounding differ
C4_Witness ==
    \E i \in 1..Len(G) :
        /\ GrowthCase(i)
        /\ Pow(2 * demoCall.sz + 1, G[i]) <= Pow(2, G[i]) * VPow(i)
        /\ VPow(i) < Pow(demoCall.sz + 1, G[i])

\* C5: with K > 1 subpopulations demoFunc returns K sizes that sum to sz; each of
\* the first K-1 is sz*splitTo[k] truncated and the last one takes the remainder.
Truncates(e, sz, num) ==
    /\ e * SplitDen <= sz * num
    /\ \/ sz * num < (e + 1) * SplitDen
       \/ sz * num = (e + 1) * SplitDen /\ ~Dyadic(SplitDen)

C5_SplitSumsToSize ==
    (Called /\ demoCall.nSP > 1) =>
        LET K == Len(demoCall.ret)
        IN /\ K = Len(splitTo)
           /\ K = demoCall.nSP
           /\ Sum(demoCall.ret) = demoCall.sz
           /\ \A k \in 1..(K - 1) : Truncates(demoCall.ret[k], demoCall.sz, splitTo[k])
           /\ \E e \in 0..demoCall.sz :
                /\ Truncates(e, demoCall.sz, splitTo[K])
                /\ demoCall.ret[K] >= e
                /\ demoCall.ret[K] = e + (demoCall.sz - e - Sum(SubSeq(demoCall.ret, 1, K - 1)))

\* a split where the last subpopulation gets a remainder
C5_Witness ==
    /\ Called
    /\ demoCall.nSP > 1
    /\ Sum(demoCall.ret) = demoCall.sz
    /\ Last(demoCall.ret) * SplitDen > demoCall.sz * Last(splitTo)

\* the selection draws
DrawReturned == draw.pc = "returned"
Magnitude(x) == IF x < 0 THEN 0 - x ELSE x
InRange(x) == selRange[1] <= Magnitude(x) /\ Magnitude(x) <= selRange[2]

\* C6 as stated: every draw of a clipped family (vector lengths 5, 7, 8, 12)
\* returns, on every branch, s with selRange.lo <= |s| <= selRange.hi.
C6_AsStated == DrawReturned => InRange(draw.ret[1])

\* C6 amended: with 0 <= lo <= hi, every draw that returns from a gamma branch
\* gives lo <= |s| <= hi; the constant branch returns selCoef[1] as it is.
C6_GammaBranchesClipped ==
    /\ (DrawReturned /\ draw.branch # "constant") => InRange(draw.ret[1])
    /\ (DrawReturned /\ draw.branch = "constant") => draw.ret[1] = selCoef[2]

\* a gamma sample above the range, returned as hi (or -hi)
C6_Witness ==
    /\ DrawReturned
    /\ draw.branch # "constant"
    /\ draw.s > selRange[2]
    /\ Magnitude(draw.ret[1]) = selRange[2]

\* C7: mixed gamma (length 5) with p = 1.0 returns (selCoef[1], selCoef[4]) on
\* every draw and never calls the gamma sampler.
C7_CertainConstant ==
    (selDistFunc = "mixedGamma5" /\ selCoef[1] = PDen) =>
        /\ draw.pc # "loop"
        /\ draw.gammaCalls = 0
        /\ DrawReturned => draw.ret = <<selCoef[2], selCoef[5]>>

C7_Witness ==
    /\ selDistFunc = "mixedGamma5"
    /\ selCoef[1] = PDen
    /\ DrawReturned
    /\ draw.u = PDen - 1
    /\ draw.ret = <<selCoef[2], selCoef[5]>>

\* C8: genSelDistFunc picks the family by the length of the vector alone, and
\* any length other than 2, 3, 5, 7, 8, 12 (0 included) raises an error and
\* gives no generator.
FamilyTable ==
    [n \in {2, 3, 5, 7, 8, 12} |->
        CASE n = 2 -> "CONSTANT"
          [] n = 3 -> "GAMMA_DISTRIBUTION"
          [] n = 5 -> "mixedGamma5"
          [] n = 7 -> "mixedGamma7"
          [] n = 8 -> "complexMixedGamma8"
          [] n = 12 -> "complexMixedGamma12"]

C8_FamilyByLength ==
    selDistFunc # "none" =>
        IF Len(selCoef) \in DOMAIN FamilyTable
        THEN selDistFunc = FamilyTable[Len(selCoef)]
        ELSE selDistFunc = "ValueError" /\ draw = NoDraw

C8_Witness == selDistFunc = "ValueError" /\ Len(selCoef) = 0

\* the statistics collector
\* the mutant copies of a population
CopiesOf(g) ==
    Cardinality({c \in (1..Len(g)) \X (1..2) \X (1..Slots) : g[c[1]][c[2]][c[3]] # 0})

\* C9: after countSites, numSites is the number of distinct non-wildtype
\* positions over all haplotype slots of all individuals, also when no slot
\* holds 0 and when there is no mutation.
C9_NumSitesDistinct ==
    [][CountSites => (err' = "none" /\ dvars'.numSites = Cardinality(SitesOf(geno')))]_vars

\* C10: countSites sets avgSites = copies / popSize and
\* avgFreq = copies / numSites / (2*popSize), avgFreq is 0 when numSites = 0,
\* and no division by a zero numSites happens.
SameFraction(f, num, den) == f[2] # 0 /\ den # 0 /\ f[1] * den = num * f[2]

C11_RevertIdempotent ==
    RevertFixedSites(RevertFixedSites(geno)) = RevertFixedSites(geno)

\* a population of two individuals with a fixed site and a segregating site
C11_Witness ==
    /\ Len(geno) = 2
    /\ FixedSites(geno) # {}
    /\ SitesOf(geno) # FixedSites(geno)
    /\ RevertFixedSites(geno) # geno

\* the lines of the kind k among the first n lines of a file
CountKind(file, n, k) == Cardinality({j \in 1..n : file[j].kind = k})

\* C12: the .sfs file holds the header line first and only there; then, for
\* the replicates 1, 2, ... in increasing order, the comment line of the
\* replicate immediately followed by the rows of that replicate: every row
\* follows the comment line or a row of its own replicate; a finished run
\* holds one comment line per replicate.
C12_FileLayout ==
    /\ pc # "srvOutput" => (Len(sfs) >= 1 /\ sfs[1] = HeaderLine)
    /\ \A k \in 2..Len(sfs) :
        /\ sfs[k].kind \in {"comment", "row"}
        /\ sfs[k].kind = "comment" => sfs[k].rep = CountKind(sfs, k - 1, "comment") + 1
        /\ sfs[k].kind = "row" =>
            /\ sfs[k - 1].kind \in {"comment", "row"}
            /\ sfs[k - 1].rep = sfs[k].rep
    /\ pc = "done" => CountKind(sfs, Len(sfs), "comment") = opts.numReps

\* a finished run of two replicates with rows of both
C12_Witness ==
    /\ pc = "done"
    /\ opts.numReps = 2
    /\ \E j, k \in 2..Len(sfs) :
        /\ sfs[j].kind = "row" /\ sfs[j].rep = 1
        /\ sfs[k].kind = "row" /\ sfs[k].rep = 2

\* the haplotypes of a population that carry the position x
CarriersOf(g, x) ==
    Cardinality({c \in (1..Len(g)) \X (1..2) : x \in Mutants(g[c[1]][c[2]])})
Smaller(a, b) == IF a <= b THEN a ELSE b
Distance(a, b) == IF a <= b THEN b - a ELSE a - b
\* the lines saveMarkerInfoToFile has added in a step
NewLines == {k \in (Len(sfs) + 1)..Len(sfs') : sfs'[k].kind = "row"}

\* C13: every row written has maf = min(vaf, 1 - vaf), with vaf the number c
\* of haplotypes of the final population that carry the position over
\* 2*popSize, to the eight decimals printed; so 0 <= maf <= 0.5.
C13_MafIsMinor ==
    [][SaveMarkerInfoToFile =>
        \A k \in NewLines :
            LET c == CarriersOf(geno, sfs'[k].pos)
                sz == 2 * Len(geno)
            IN /\ 2 * Distance(sfs'[k].maf * sz, Smaller(c, sz - c) * Scale8) <= sz
               /\ 0 <= sfs'[k].maf
               /\ 2 * sfs'[k].maf <= Scale8]_vars

\* a row of a position carried on three of the four haplotypes: maf 0.25
C13_Witness ==
    /\ pc = "loop"
    /\ Len(geno) = 2
    /\ \E k \in 2..Len(sfs) :
        /\ sfs[k].kind = "row"
        /\ sfs[k].rep = replicate
        /\ CarriersOf(geno, sfs[k].pos) = 3
        /\ sfs[k].maf = 25000000

\* the rows added in a step are rows of segregating sites
RowsSegregate ==
    \A k \in NewLines :
        LET c == CarriersOf(geno, sfs'[k].pos)
        IN 0 < c /\ c < 2 * Len(geno)

\* C14 as stated: every row written is for a site with 0 < c < 2*popSize,
\* for both settings of revertFixedSites and every verbosity level.
C14_AsStated == [][SaveMarkerInfoToFile => RowsSegregate]_vars

\* C14: with revertFixedSites on, at every verbosity level, every row written
\* is for a site with 0 < c < 2*popSize.
C14_SegregatingWhenReverted ==
    [][(SaveMarkerInfoToFile /\ opts.revertFixedSites) => RowsSegregate]_vars

\* a row written with revertFixedSites on and nothing printed, after more than
\* one generation
C14_Witness ==
    /\ pc = "loop"
    /\ opts.revertFixedSites
    /\ opts.verbose < 1
    /\ gen = 2
    /\ \E k \in 2..Len(sfs) :
        /\ sfs[k].kind = "row"
        /\ sfs[k].rep = replicate
        /\ CarriersOf(geno, sfs[k].pos) \in 1..(2 * Len(geno) - 1)

\* C15: a statistics file is requested from the simulation of replicate i
\* exactly when saveStat = -1 or i <= saveStat; with saveStat = 0 none is
\* requested, and no statistics file of another replicate is written.
C15_StatFileRequested ==
    /\ replicate >= 1 =>
        /\ args.statFile # <<>> <=> (opts.saveStat = -1 \/ replicate <= opts.saveStat)
        /\ args.statFile # <<>> => args.statFile = <<"stat", replicate>>
        /\ opts.saveStat = 0 => args.statFile = <<>>
    /\ \A f \in files : f[1] = "stat" => (opts.saveStat = -1 \/ f[2] <= opts.saveStat)

\* the second of two replicates runs without a statistics file, the file of the
\* first is written
C15_Witness ==
    /\ opts.numReps = 2
    /\ opts.saveStat = 1
    /\ replicate = 2
    /\ args.statFile = <<>>
    /\ <<"stat", 1>> \in files

\* C16: when replicate i has been simulated, its .ped file has been written
\* exactly when saveGenotype = -1 or i <= saveGenotype.
C16_PedFileWritten ==
    (pc \in {"loop", "done"} /\ replicate >= 1) =>
        (<<"ped", replicate>> \in files
            <=> (opts.saveGenotype = -1 \/ replicate <= opts.saveGenotype))

SupportedLengths == {0, 2, 3, 5, 7, 8, 12}
\* the run stopped in the first call of simuRareVariants, before a generation,
\* with nothing but the header in the file
StoppedBeforeFirstGeneration ==
    /\ pc \in {"srvOutput", "loop", "aborted"}
    /\ \A k \in 1..Len(sfs) : sfs[k].kind = "header"
    /\ replicate >= 1 =>
        /\ pc = "aborted"
        /\ err \in {"ValueError", "KeyError"}
        /\ replicate = 1
        /\ gen = 0

\* C18 as stated: an unsupported selection-vector length, an unsupported named
\* distribution, an unknown mutation model or an unknown fitness mode raises
\* a fatal error before the first generation of the first replicate, with no
\* comment line and no row written.
C18_AsStated ==
    (\/ Len(selCoef) \notin SupportedLengths
     \/ opts.selDist \notin NamedDists
     \/ opts.mutationModel \notin MutationModels
     \/ opts.selModel \notin Modes) => StoppedBeforeFirstGeneration

\* C18: the same, with the named distribution looked at only when no selection
\* vector is given.
C18_FatalBeforeFirstGeneration ==
    (\/ Len(selCoef) \notin SupportedLengths
     \/ (selCoef = <<>> /\ opts.selDist \notin NamedDists)
     \/ opts.mutationModel \notin MutationModels
     \/ opts.selModel \notin Modes) => StoppedBeforeFirstGeneration

\* the run stopped on the unknown mutation model, everything else supported
C18_Witness ==
    /\ pc = "aborted"
    /\ err = "KeyError"
    /\ opts.mutationModel \notin MutationModels
    /\ opts.selModel \in Modes
    /\ Len(selCoef) = 2
    /\ replicate = 1
    /\ sfs = <<HeaderLine>>

\* C19: after the header is written the file only grows, so no replicate
\* rewrites or truncates what an earlier one wrote; a replicate that completes
\* leaves its comment line and one row for each site of its final population;
\* when replicate k aborts, the file holds the header and, for each of the
\* replicates 1..k-1, its comment line.
C19_EarlierOutputKept ==
    [][/\ pc # "srvOutput" =>
            (Len(sfs') >= Len(sfs) /\ SubSeq(sfs', 1, Len(sfs)) = sfs)
       /\ (SaveMarkerInfoToFile /\ pc' = "loop") =>
            /\ Len(sfs') = Len(sfs) + 1 + Cardinality(SitesOf(geno))
            /\ sfs'[Len(sfs) + 1] = CommentLine(replicate, args.regInt)
            /\ {sfs'[k].pos : k \in NewLines} = SitesOf(geno)
            /\ \A k \in NewLines : sfs'[k].rep = replicate
       /\ pc' = "aborted" =>
            /\ sfs'[1] = HeaderLine
            /\ \A i \in 1..(replicate' - 1) :
                Cardinality({k \in 1..Len(sfs') :
                                sfs'[k].kind = "comment" /\ sfs'[k].rep = i}) = 1]_vars

\* the second replicate aborts, the rows of the first are in the file
C19_Witness ==
    /\ pc = "aborted"
    /\ replicate = 2
    /\ err = "IOError"
    /\ CountKind(sfs, Len(sfs), "comment") = 1
    /\ \E k \in 2..Len(sfs) : sfs[k].kind = "row" /\ sfs[k].rep = 1

\* C20: at the end of every replicate the selection table recorded on the
\* population holds an (s, h) entry for every mutation position of the final
\* population, so no lookup for a row fails.
C20_TableCoversFinalPopulation ==
    /\ pc = "save" =>
        \A x \in SitesOf(geno) :
            /\ popSelCoef.kind = "dict"
            /\ x \in DOMAIN popSelCoef.table
            /\ Len(popSelCoef.table[x]) = 2
    /\ pc = "aborted" => (err # "TypeError" /\ (err = "KeyError" => gen = 0))

\* the end of a replicate of two generations whose final population carries
\* two positions, both with an entry
C20_Witness ==
    /\ pc = "save"
    /\ gen = 2
    /\ Cardinality(SitesOf(geno)) = 2
    /\ popSelCoef.kind = "dict"
    /\ DOMAIN popSelCoef.table = {1, 2}


\* C21: with recombination rate 0, every haplotype of every offspring produced
\* by a mating is identical to one of the two haplotypes of an individual of the
\* parental generation: no breakpoint is introduced
C21_NoBreakpointAtRateZero ==
    [][(RandomMating /\ opts.recRate = 0 /\ pc' = "preOps")
        => \A i \in 1..Len(geno') : \A h \in 1..2 :
              \E p \in 1..Len(geno) : geno'[i][h] \in {geno[p][1], geno[p][2]}]_vars

\* a generation bred at rate 0 from a parent whose two haplotypes differ in both
\* positions, so that a breakpoint between them would have shown
C21_Witness ==
    /\ opts.recRate = 0
    /\ pc = "preOps"
    /\ gen = 1
    /\ Len(geno) = 1
    /\ Mutants(geno[1][1]) = {1}
    /\ Mutants(geno[1][2]) = {2}


\* C22: with revertFixedSites disabled no reversion is applied during a
\* replicate, whatever the verbosity and the statistics file: no step of the
\* evolution that can revert changes the genotypes
C22_NoReversionWhenDisabled ==
    [][(~opts.revertFixedSites /\ (PreOps \/ Selector \/ FinalOps)) => geno' = geno]_vars


\* the truncation bounds of the gamma branch a draw took
Truncated == selDistFunc \in {"mixedGamma7", "complexMixedGamma12"}
LowerBound ==
    IF selDistFunc = "mixedGamma7" THEN selCoef[6]
    ELSE IF draw.branch = "positive" THEN selCoef[9] ELSE selCoef[11]
UpperBound ==
    IF selDistFunc = "mixedGamma7" THEN selCoef[7]
    ELSE IF draw.branch = "positive" THEN selCoef[10] ELSE selCoef[12]

C24_ComplexBranches ==
    (Complex(selDistFunc) /\ DrawReturned) =>
        /\ draw.u < selCoef[1] => draw.ret = <<selCoef[2], selCoef[8]>>
        /\ (selCoef[1] <= draw.u /\ draw.u < selCoef[1] + selCoef[3]) =>
              /\ selRange[1] <= draw.ret[1] /\ draw.ret[1] <= selRange[2]
              /\ draw.ret[1] >= 0
        /\ draw.u >= selCoef[1] + selCoef[3] =>
              /\ 0 - selRange[2] <= draw.ret[1] /\ draw.ret[1] <= 0 - selRange[1]
              /\ draw.ret[1] <= 0

\* a draw on the negative branch whose sample was above the range and came
\* back as -hi
C24_Witness ==
    /\ Complex(selDistFunc)
    /\ DrawReturned
    /\ draw.u >= selCoef[1] + selCoef[3]
    /\ draw.s > selRange[2]
    /\ selRange[2] > 0
    /\ draw.ret[1] = 0 - selRange[2]


\* the records of the sampling generations, in increasing order
SamplingRecords(gens) ==
    LET order == SortSet(gens)
    IN [k \in 1..Len(order) |-> StatRecord(order[k], FALSE)]

\* C25: a replicate whose statistics file is requested leaves in it one record
\* for every sampling generation, in increasing order, and one further record
\* for the end of the run, whatever the verbosity
C25_StatFileRecords ==
    (pc = "save" /\ args.statFile # <<>>) =>
        statLines = SamplingRecords(ProgGen(G, opts.steps)) \o <<StatRecord(gen, TRUE)>>


\* C26: within a replicate an entry of the selection table, once made, is never
\* changed or removed: a later report for the same position does not replace
\* the stored pair
C26_EntriesKept ==
    [][replicate' = replicate =>
          \A x \in DOMAIN collector :
              x \in DOMAIN collector' /\ collector'[x] = collector[x]]_vars


\* the generations whose statistics are in the statistics file
SampledGens == {statLines[k].gen : k \in {j \in DOMAIN statLines : ~statLines[j].final}}

\* the generations stageStart, stageStart + k, ... of every stage
EveryKth(g, k) ==
    LET Gs == GensOf(g)
    IN {x \in 0..(Sum(g) - 1) :
          \E i \in 1..Len(g) : Gs[i] <= x /\ x < Gs[i + 1] /\ (x - Gs[i]) % k = 0}

\* C27: with steps left empty the statistics are output at every generation of
\* each stage; with a single value k they are output at stageStart,
\* stageStart + k, ... of every stage
C27_SamplingGenerations ==
    (pc = "save" /\ args.statFile # <<>>) =>
        /\ Len(opts.steps) = 0 => SampledGens = 0..(Sum(G) - 1)
        /\ Len(opts.steps) = 1 => SampledGens = EveryKth(G, opts.steps[1])


\* C28: for every distribution name the option offers, with no custom vector,
\* simuRareVariants resolves a default vector of a supported length and builds
\* the generator without error
C28_OfferedNamesResolve ==
    (/\ pc \notin {"srvOutput", "loop"}
     /\ selCoef = <<>>
     /\ opts.selDist \in OfferedDists
     /\ opts.selModel \in Modes
     /\ opts.mutationModel \in MutationModels) =>
        /\ err # "ValueError"
        /\ selDistFunc \in {"CONSTANT", "GAMMA_DISTRIBUTION"} \cup Closures


\* a schedule with len(G) = len(N) - 1, every duration at least 1, and no split
WholeSchedule ==
    /\ Len(G) = Len(N) - 1
    /\ \A i \in 1..Len(G) : G[i] >= 1
    /\ Len(splitTo) = 1

\* C30: for every schedule with len(G) = len(N) - 1, durations >= 1 and no
\* split, a replicate runs exactly sum(G) generations (it goes on while fewer
\* have run and never runs more), the generation bred last has exactly N[-1]
\* individuals whether the last stage grows, holds or contracts, and a
\* generation index at or beyond sum(G) maps to N[-1] as well
C30_ScheduleRunsToLastSize ==
    WholeSchedule =>
        /\ gen <= Sum(G)
        /\ gen < Sum(G) => ENABLED Mating
        /\ gen = Sum(G) => ~ENABLED Mating
        /\ (gen = Sum(G) /\ demoCall.gen = Sum(G) - 1) => demoCall.ret = <<N[Len(N)]>>
        /\ demoCall.gen >= Sum(G) => demoCall.ret = <<N[Len(N)]>>

\* a schedule of two stages whose last stage grows over two generations or more,
\* run to its end and then asked for a generation beyond it
C30_Witness ==
    /\ WholeSchedule
    /\ Len(G) = 2
    /\ G[2] >= 2
    /\ N[2] < N[3]
    /\ gen = Sum(G)
    /\ demoCall.gen = Sum(G) + 1
    /\ demoCall.ret = <<N[3]>>


\* the draw is in the loop of a gamma branch
InLoop == draw.pc = "loop"

\* randGamma has a sample strictly between the truncation bounds of the branch
SampleInside == \E s \in 0..MaxGamma : LowerBound < s /\ s < UpperBound

\* the untruncated families (lengths 5 and 8) return with the first gamma sample
OneSampleAtMost ==
    selDistFunc \in {"mixedGamma5", "complexMixedGamma8"} =>
        /\ draw.gammaCalls <= 1
        /\ draw.gammaCalls = 1 => DrawReturned

====
